---- MODULE Spec2Model ----
(***************************************************************************)
(* Model of pyannote/audio/features/utils.py: the precomputed-feature      *)
(* cache (Precomputed), the legacy HTK cache (PrecomputedHTK) and the      *)
(* audio reader (read_audio).                                              *)
(*                                                                         *)
(* Conventions.                                                            *)
(*  - A string is a sequence of tokens; no token is the concatenation of   *)
(*    other tokens, so two strings are equal iff their token sequences     *)
(*    are equal, and str.format is sequence concatenation.                 *)
(*  - A float is an exact rational <<n, d>> in lowest terms with d > 0.    *)
(*  - An optional value is a sequence of length 0 (None) or 1.             *)
(*  - An ndarray is [shape |-> <<...>>, rows |-> ...]: rows is the         *)
(*    sequence of its rows; an array of shape (n,) has one row, as the     *)
(*    array of shape (1, n) has, and differs from it by its shape.         *)
(***************************************************************************)
EXTENDS Integers, Sequences, FiniteSets, TLC

VARIABLES
    files,      \* file system: path -> file content, for the files that exist
    dirs,       \* file system: the directories that exist
    handles,    \* the Precomputed objects the callers hold
    ret,        \* outcome of the last operation (value returned or exception)
    lastWrite,  \* history: uri -> data of the most recent dump to it, if any
    audio,      \* read_audio: the call's inputs and its outcome
    htk,        \* PrecomputedHTK: files on disk, the object, the last outcome
    procs       \* concurrent callers: each one's position, locals and outcome

vars == <<files, dirs, handles, ret, lastWrite, audio, htk, procs>>

-----------------------------------------------------------------------------
(* Optional values and rationals *)

None == <<>>

Some(x) == <<x>>

IsNone(o) == o = <<>>

Abs(n) == IF n < 0 THEN -n ELSE n

RECURSIVE GCD(_, _)
GCD(a, b) == IF b = 0 THEN a ELSE GCD(b, a % b)

\* the float n/d (d # 0) in lowest terms
Rat(n, d) ==
    LET g == GCD(Abs(n), Abs(d))
        s == IF d < 0 THEN -1 ELSE 1
    IN  <<(s * n) \div g, (s * d) \div g>>

R(n) == <<n, 1>>

RatSub(a, b) == Rat(a[1] * b[2] - b[1] * a[2], a[2] * b[2])

RatDiv(a, b) == Rat(a[1] * b[2], a[2] * b[1])

-----------------------------------------------------------------------------
(* Bounds and input sets *)

MaxHandles == 2

RootDir == <<"d">>

\* uris handed to Precomputed.__call__ and Precomputed.dump
Uris == { <<"db", "/", "a">>, <<"metadata", ".yml">> }

Grid(start, duration, step) ==
    [start |-> start, duration |-> duration, step |-> step]

\* SlidingWindow arguments a caller passes to Precomputed(...)
Grids == { Grid(R(0), Rat(25, 1000), Rat(1, 100)),
           Grid(R(0), Rat(25, 1000), Rat(2, 100)) }

Dimensions == {1, 2}

Array2(rows, ncols) == [shape |-> <<Len(rows), ncols>>, rows |-> rows]

\* feature matrices a caller passes to Precomputed.dump
Matrices == { Array2(<< <<R(6), R(10)>> >>, 2),
              Array2(<< <<R(1)>>, <<R(3)>>, <<R(5)>> >>, 1) }

UseMemmap == BOOLEAN

MuValues == { None, Some(R(2)) }

SigmaValues == { None, Some(R(4)) }

-----------------------------------------------------------------------------
(* File system helpers (os.path, mkdir_p) *)

Range(s) == { s[i] : i \in DOMAIN s }

\* os.path.dirname: everything before the last "/"
dirname(path) ==
    LET slashes == { i \in DOMAIN path : path[i] = "/" }
    IN  IF slashes = {} THEN <<>>
        ELSE SubSeq(path, 1, (CHOOSE i \in slashes : \A j \in slashes : j <= i) - 1)

\* mkdir_p(d): d and every missing ancestor of d come to exist
mkdir_p(ds, d) ==
    ds \cup { SubSeq(d, 1, i) : i \in { j \in DOMAIN d : j = Len(d) \/ d[j + 1] = "/" } }

\* os.path.exists
exists(fsFiles, fsDirs, path) == path \in DOMAIN fsFiles \/ path \in fsDirs

\* the file system after writing content at path (open(path, 'w'), np.save)
WriteFile(fsFiles, path, content) ==
    [p \in DOMAIN fsFiles \cup {path} |->
        IF p = path THEN content ELSE fsFiles[p]]

-----------------------------------------------------------------------------
(* YAML schema file and npy entry files *)

\* yaml.dump writes the keys of a mapping in sorted order, one per line
SortedKeys == <<"dimension", "duration", "start", "step">>

\* yaml.dump(params, f, default_flow_style=False): the lines of the document
yaml_dump(params) ==
    [kind |-> "yaml",
     doc  |-> [i \in 1..Len(SortedKeys) |-> <<SortedKeys[i], params[SortedKeys[i]]>>]]

\* yaml.load(f): the mapping described by the lines of the document
yaml_load(content) ==
    [k \in { content.doc[i][1] : i \in DOMAIN content.doc } |->
        (CHOOSE line \in Range(content.doc) : line[1] = k)[2]]

RECURSIVE Flatten(_)
Flatten(rows) == IF rows = <<>> THEN <<>> ELSE Head(rows) \o Flatten(Tail(rows))

\* np.save(path, data): shape header followed by the elements in row order
np_save(data) ==
    [kind |-> "npy", shape |-> data.shape, flat |-> Flatten(data.rows)]

\* np.load(path): the array rebuilt from the header and the elements
np_load(content) ==
    [shape |-> content.shape,
     rows  |-> [i \in 1..content.shape[1] |->
                 [j \in 1..content.shape[2] |->
                     content.flat[(i - 1) * content.shape[2] + j]]]]

\* (data - mu) / sigma, broadcast over the elements of a 2-D array
Normalize(data, mu, sigma) ==
    [shape |-> data.shape,
     rows  |-> [i \in DOMAIN data.rows |->
                 [j \in DOMAIN data.rows[i] |->
                     RatDiv(RatSub(data.rows[i][j], mu), sigma)]]]

SlidingWindowFeature(data, sliding_window) ==
    [data |-> data, sliding_window |-> sliding_window]

-----------------------------------------------------------------------------
(* class Precomputed *)

\* get_path formatting the root directory in place of the uri
get_path_rootOnly(root_dir, uri) == root_dir \o <<"/">> \o root_dir \o <<".npy">>

\* get_path without the entry suffix
get_path_nosuffix(root_dir, uri) == root_dir \o <<"/">> \o uri

\* Precomputed.get_path: '{root_dir}/{uri}.npy'
get_path(root_dir, uri) == root_dir \o <<"/">> \o uri \o <<".npy">>

\* '{root_dir}/metadata.yml'
metadata_path(root_dir) == root_dir \o <<"/", "metadata", ".yml">>

\* attribute lookup on an object: AttributeError when the attribute is unset
HasAttr(self, name) == name \in DOMAIN self

Raise(fsFiles, fsDirs, exc, msg) ==
    [files |-> fsFiles, dirs |-> fsDirs, exc |-> exc, msg |-> msg, self |-> None]

\* InitExisting comparing the start and the step of the grids, not the duration
InitExisting_noDuration(fsFiles, fsDirs, path, self0, sliding_window, dimension) ==
    LET params == yaml_load(fsFiles[path])
        dimension_ == params["dimension"]
        sliding_window_ == Grid(params["start"], params["duration"], params["step"])
        self == [root_dir |-> self0.root_dir, use_memmap |-> self0.use_memmap,
                 mu |-> self0.mu, sigma |-> self0.sigma,
                 dimension_ |-> dimension_, sliding_window_ |-> sliding_window_]
    IN  IF ~IsNone(dimension) /\ self["dimension_"] # dimension[1]
        THEN Raise(fsFiles, fsDirs, "AttributeError",
                   <<"'Precomputed' object has no attribute '", "dimensions_", "'">>)
        ELSE IF ~IsNone(sliding_window) /\
                (sliding_window[1].start # sliding_window_.start \/
                 sliding_window[1].step # sliding_window_.step)
        THEN Raise(fsFiles, fsDirs, "ValueError", <<"inconsistent \"sliding_window\"">>)
        ELSE [files |-> fsFiles, dirs |-> fsDirs, exc |-> "", msg |-> <<>>,
              self |-> Some(self)]

\* InitExisting with duration and step exchanged when the grid is rebuilt
InitExisting_swapped(fsFiles, fsDirs, path, self0, sliding_window, dimension) ==
    LET params == yaml_load(fsFiles[path])
        dimension_ == params["dimension"]
        sliding_window_ == Grid(params["start"], params["step"], params["duration"])
        self == [root_dir |-> self0.root_dir, use_memmap |-> self0.use_memmap,
                 mu |-> self0.mu, sigma |-> self0.sigma,
                 dimension_ |-> dimension_, sliding_window_ |-> sliding_window_]
    IN  IF ~IsNone(dimension) /\ self["dimension_"] # dimension[1]
        THEN Raise(fsFiles, fsDirs, "AttributeError",
                   <<"'Precomputed' object has no attribute '", "dimensions_", "'">>)
        ELSE [files |-> fsFiles, dirs |-> fsDirs, exc |-> "", msg |-> <<>>,
              self |-> Some(self)]

\* the branch of Precomputed.__init__ taken when metadata.yml exists
InitExisting(fsFiles, fsDirs, path, self0, sliding_window, dimension) ==
    LET params == yaml_load(fsFiles[path])
        dimension_ == params["dimension"]
        sliding_window_ == Grid(params["start"], params["duration"], params["step"])
        self == [root_dir |-> self0.root_dir, use_memmap |-> self0.use_memmap,
                 mu |-> self0.mu, sigma |-> self0.sigma,
                 dimension_ |-> dimension_, sliding_window_ |-> sliding_window_]
    IN  IF ~IsNone(dimension) /\ self["dimension_"] # dimension[1]
        THEN \* the arguments of msg.format are evaluated before the raise
             IF HasAttr(self, "dimensions_")
             THEN Raise(fsFiles, fsDirs, "ValueError",
                        <<"inconsistent \"dimension\" (is: ", ToString(dimension[1]),
                          ", should be: ", ToString(self["dimensions_"]), ")">>)
             ELSE Raise(fsFiles, fsDirs, "AttributeError",
                        <<"'Precomputed' object has no attribute '", "dimensions_", "'">>)
        ELSE IF ~IsNone(sliding_window) /\
                (sliding_window[1].start # sliding_window_.start \/
                 sliding_window[1].duration # sliding_window_.duration \/
                 sliding_window[1].step # sliding_window_.step)
        THEN Raise(fsFiles, fsDirs, "ValueError", <<"inconsistent \"sliding_window\"">>)
        ELSE [files |-> fsFiles, dirs |-> fsDirs, exc |-> "", msg |-> <<>>,
              self |-> Some(self)]

\* InitCreate leaving a schema file that already has content as it is
InitCreate_keepsFile(fsFiles, fsDirs, path, self0, sliding_window, dimension) ==
    IF IsNone(sliding_window)
    THEN Raise(fsFiles, fsDirs, "ValueError", <<"missing \"sliding_window\" parameter.">>)
    ELSE IF IsNone(dimension)
    THEN Raise(fsFiles, fsDirs, "ValueError", <<"missing \"dimension\" parameter.">>)
    ELSE LET params == [start |-> sliding_window[1].start,
                        duration |-> sliding_window[1].duration,
                        step |-> sliding_window[1].step,
                        dimension |-> dimension[1]]
         IN  [files |-> IF path \in DOMAIN fsFiles /\ fsFiles[path].doc # <<>>
                        THEN fsFiles
                        ELSE WriteFile(fsFiles, path, yaml_dump(params)),
              dirs  |-> mkdir_p(fsDirs, dirname(path)),
              exc   |-> "", msg |-> <<>>,
              self  |-> Some([root_dir |-> self0.root_dir,
                              use_memmap |-> self0.use_memmap,
                              mu |-> self0.mu, sigma |-> self0.sigma,
                              dimension_ |-> dimension[1],
                              sliding_window_ |-> sliding_window[1]])]

\* InitCreate creating the parent directory before it looks at its parameters
InitCreate_mkdirFirst(fsFiles, fsDirs, path, self0, sliding_window, dimension) ==
    IF IsNone(sliding_window)
    THEN Raise(fsFiles, mkdir_p(fsDirs, dirname(path)), "ValueError",
               <<"missing \"sliding_window\" parameter.">>)
    ELSE IF IsNone(dimension)
    THEN Raise(fsFiles, mkdir_p(fsDirs, dirname(path)), "ValueError",
               <<"missing \"dimension\" parameter.">>)
    ELSE LET params == [start |-> sliding_window[1].start,
                        duration |-> sliding_window[1].duration,
                        step |-> sliding_window[1].step,
                        dimension |-> dimension[1]]
         IN  [files |-> WriteFile(fsFiles, path, yaml_dump(params)),
              dirs  |-> mkdir_p(fsDirs, dirname(path)),
              exc   |-> "", msg |-> <<>>,
              self  |-> Some([root_dir |-> self0.root_dir,
                              use_memmap |-> self0.use_memmap,
                              mu |-> self0.mu, sigma |-> self0.sigma,
                              dimension_ |-> dimension[1],
                              sliding_window_ |-> sliding_window[1]])]

\* InitCreate persisting the duration in place of the step
InitCreate_stepBug(fsFiles, fsDirs, path, self0, sliding_window, dimension) ==
    IF IsNone(sliding_window)
    THEN Raise(fsFiles, fsDirs, "ValueError", <<"missing \"sliding_window\" parameter.">>)
    ELSE IF IsNone(dimension)
    THEN Raise(fsFiles, fsDirs, "ValueError", <<"missing \"dimension\" parameter.">>)
    ELSE LET params == [start |-> sliding_window[1].start,
                        duration |-> sliding_window[1].duration,
                        step |-> sliding_window[1].duration,
                        dimension |-> dimension[1]]
         IN  [files |-> WriteFile(fsFiles, path, yaml_dump(params)),
              dirs  |-> mkdir_p(fsDirs, dirname(path)),
              exc   |-> "", msg |-> <<>>,
              self  |-> Some([root_dir |-> self0.root_dir,
                              use_memmap |-> self0.use_memmap,
                              mu |-> self0.mu, sigma |-> self0.sigma,
                              dimension_ |-> dimension[1],
                              sliding_window_ |-> sliding_window[1]])]

\* the branch of Precomputed.__init__ taken when metadata.yml does not exist
InitCreate(fsFiles, fsDirs, path, self0, sliding_window, dimension) ==
    IF IsNone(sliding_window)
    THEN Raise(fsFiles, fsDirs, "ValueError", <<"missing \"sliding_window\" parameter.">>)
    ELSE IF IsNone(dimension)
    THEN Raise(fsFiles, fsDirs, "ValueError", <<"missing \"dimension\" parameter.">>)
    ELSE LET params == [start |-> sliding_window[1].start,
                        duration |-> sliding_window[1].duration,
                        step |-> sliding_window[1].step,
                        dimension |-> dimension[1]]
         IN  [files |-> WriteFile(fsFiles, path, yaml_dump(params)),
              dirs  |-> mkdir_p(fsDirs, dirname(path)),
              exc   |-> "", msg |-> <<>>,
              self  |-> Some([root_dir |-> self0.root_dir,
                              use_memmap |-> self0.use_memmap,
                              mu |-> self0.mu, sigma |-> self0.sigma,
                              dimension_ |-> dimension[1],
                              sliding_window_ |-> sliding_window[1]])]

\* Precomputed.__init__: the file system afterwards and the object or exception
Precomputed_init(fsFiles, fsDirs, root_dir, use_memmap, sw, dim, mu, sigma) ==
    LET self0 == [root_dir |-> root_dir, use_memmap |-> use_memmap,
                  mu |-> mu, sigma |-> sigma]
        path == metadata_path(root_dir)
    IN  IF exists(fsFiles, fsDirs, path)
        THEN IF path \notin DOMAIN fsFiles \/ fsFiles[path].kind # "yaml"
             THEN \* io.open of a directory, or yaml.load of a file that is not YAML
                  Raise(fsFiles, fsDirs, "IOError", <<"cannot load ">> \o path)
             ELSE InitExisting(fsFiles, fsDirs, path, self0, sw, dim)
        ELSE InitCreate(fsFiles, fsDirs, path, self0, sw, dim)

\* Precomputed.sliding_window
sliding_window(self) == self.sliding_window_

\* Precomputed.dimension
dimension(self) == self.dimension_

\* __call__ taking the grid from metadata.yml again at every read
Precomputed_call_reload(fsFiles, fsDirs, self, uri) ==
    LET path == get_path(self.root_dir, uri)
        meta == metadata_path(self.root_dir)
        grid == IF meta \in DOMAIN fsFiles
                THEN LET params == yaml_load(fsFiles[meta])
                     IN  Grid(params["start"], params["duration"], params["step"])
                ELSE self.sliding_window_
    IN  IF ~exists(fsFiles, fsDirs, path)
        THEN [files |-> fsFiles, dirs |-> fsDirs,
              exc |-> "PyannoteFeatureExtractionError",
              msg |-> <<"No precomputed features for \"">> \o uri \o <<"\".">>,
              value |-> None]
        ELSE [files |-> fsFiles, dirs |-> fsDirs, exc |-> "", msg |-> <<>>,
              value |-> Some(SlidingWindowFeature(np_load(fsFiles[path]), grid))]

\* __call__ creating the entry's parent directory before looking for the entry
Precomputed_call_mkdir(fsFiles, fsDirs, self, uri) ==
    LET path == get_path(self.root_dir, uri)
    IN  IF ~exists(fsFiles, fsDirs, path)
        THEN [files |-> fsFiles, dirs |-> mkdir_p(fsDirs, dirname(path)),
              exc |-> "PyannoteFeatureExtractionError",
              msg |-> <<"No precomputed features for \"">> \o uri \o <<"\".">>,
              value |-> None]
        ELSE [files |-> fsFiles, dirs |-> fsDirs, exc |-> "", msg |-> <<>>,
              value |-> Some(SlidingWindowFeature(np_load(fsFiles[path]),
                                                  self.sliding_window_))]

\* Precomputed.__call__: the feature returned or the exception raised, and the
\* file system afterwards
Precomputed_call(fsFiles, fsDirs, self, uri) ==
    LET path == get_path(self.root_dir, uri)
        Result(exc, msg, value) ==
            [files |-> fsFiles, dirs |-> fsDirs, exc |-> exc, msg |-> msg,
             value |-> value]
    IN  IF ~exists(fsFiles, fsDirs, path)
        THEN Result("PyannoteFeatureExtractionError",
                    <<"No precomputed features for \"">> \o uri \o <<"\".">>, None)
        ELSE IF path \notin DOMAIN fsFiles \/ fsFiles[path].kind # "npy"
        THEN \* np.load of a directory or of a file that is not an array
             Result("IOError", <<"Failed to interpret file as an array">>, None)
        ELSE LET data == IF self.use_memmap
                         THEN np_load(fsFiles[path])   \* mmap_mode='r'
                         ELSE np_load(fsFiles[path])
             IN  IF IsNone(self.mu) /\ IsNone(self.sigma)
                 THEN Result("", <<>>,
                             Some(SlidingWindowFeature(data, self.sliding_window_)))
                 ELSE IF IsNone(self.mu) \/ IsNone(self.sigma)
                 THEN \* arithmetic between an array and None
                      Result("TypeError",
                             <<"unsupported operand type(s): 'NoneType'">>, None)
                 ELSE Result("", <<>>,
                             Some(SlidingWindowFeature(
                                    Normalize(data, self.mu[1], self.sigma[1]),
                                    self.sliding_window_)))

\* dump that leaves an entry that already exists as it is
Precomputed_dump_keep(fsFiles, fsDirs, self, uri, features) ==
    LET path == get_path(self.root_dir, uri)
    IN  [dirs  |-> mkdir_p(fsDirs, dirname(path)),
         files |-> IF path \in DOMAIN fsFiles THEN fsFiles
                   ELSE WriteFile(fsFiles, path, np_save(features.data))]

\* Precomputed.dump: the file system afterwards
Precomputed_dump(fsFiles, fsDirs, self, uri, features) ==
    LET path == get_path(self.root_dir, uri)
    IN  [dirs  |-> mkdir_p(fsDirs, dirname(path)),
         files |-> WriteFile(fsFiles, path, np_save(features.data))]

-----------------------------------------------------------------------------------------------------------------------------------------------------
(* The cache as a state machine: sequential open / read / write *)

NoCall == [op |-> "none", self |-> None, uri |-> <<>>, exc |-> "", msg |-> <<>>,
           value |-> None, sliding_window |-> None, dimension |-> None]

IdleAudio == [phase |-> "idle"]

IdleHTK == [phase |-> "idle"]

NoProcs == << >>

Init ==
    /\ files = << >>
    /\ dirs = {}
    /\ handles = {}
    /\ ret = NoCall
    /\ lastWrite = [u \in Uris |-> None]
    /\ audio = IdleAudio
    /\ htk = IdleHTK
    /\ procs = NoProcs

\* a caller constructs Precomputed(root_dir, use_memmap, sliding_window,
\* dimension, mu, sigma); it keeps at most MaxHandles distinct objects
Open ==
    \E use_memmap \in UseMemmap,
       sw \in {None} \cup { Some(g) : g \in Grids },
       dim \in {None} \cup { Some(d) : d \in Dimensions },
       mu \in MuValues, sigma \in SigmaValues :
        \E out \in { Precomputed_init(files, dirs, RootDir, use_memmap, sw, dim,
                                      mu, sigma) } :
            /\ out.exc = "" => Cardinality(handles \cup {out.self[1]}) <= MaxHandles
            /\ files' = out.files
            /\ dirs' = out.dirs
            /\ handles' = IF out.exc = "" THEN handles \cup {out.self[1]} ELSE handles
            /\ ret' = [op |-> "open", self |-> out.self,
                       uri |-> <<>>, exc |-> out.exc, msg |-> out.msg,
                       value |-> None, sliding_window |-> sw, dimension |-> dim]
            /\ UNCHANGED <<lastWrite, audio, htk, procs>>

\* a caller reads an entry through one of its objects: precomputed(item)
Call ==
    \E self \in handles, uri \in Uris :
        \E out \in { Precomputed_call(files, dirs, self, uri) } :
            /\ files' = out.files
            /\ dirs' = out.dirs
            /\ ret' = [op |-> "read", self |-> Some(self), uri |-> uri,
                       exc |-> out.exc, msg |-> out.msg, value |-> out.value,
                       sliding_window |-> None, dimension |-> None]
            /\ UNCHANGED <<handles, lastWrite, audio, htk, procs>>

\* a caller writes an entry through one of its objects:
\* precomputed.dump(item, features)
Dump ==
    \E self \in handles, uri \in Uris, data \in Matrices :
        \E out \in { Precomputed_dump(files, dirs, self, uri,
                        SlidingWindowFeature(data, self.sliding_window_)) } :
            /\ files' = out.files
            /\ dirs' = out.dirs
            /\ lastWrite' = [lastWrite EXCEPT ![uri] = Some(data)]
            /\ ret' = [op |-> "write", self |-> Some(self), uri |-> uri, exc |-> "",
                       msg |-> <<>>, value |-> None,
                       sliding_window |-> None, dimension |-> None]
            /\ UNCHANGED <<handles, audio, htk, procs>>

Next == Open \/ Call \/ Dump

Spec == Init /\ [][Next]_vars

-----------------------------------------------------------------------------------------------------------------------------------------------------
(* Opens of one directory with grids that differ in each of their numbers *)

\* SlidingWindow arguments differing from one another in start, duration or step
WideGrids == Grids \cup { Grid(Rat(1, 2), Rat(25, 1000), Rat(1, 100)),
                          Grid(R(0), Rat(50, 1000), Rat(1, 100)) }

\* as Open, with the grid drawn from WideGrids and without mu and sigma
OpenWide ==
    \E use_memmap \in UseMemmap,
       sw \in {None} \cup { Some(g) : g \in WideGrids },
       dim \in {None} \cup { Some(d) : d \in Dimensions } :
        \E out \in { Precomputed_init(files, dirs, RootDir, use_memmap, sw, dim,
                                      None, None) } :
            /\ out.exc = "" => Cardinality(handles \cup {out.self[1]}) <= MaxHandles
            /\ files' = out.files
            /\ dirs' = out.dirs
            /\ handles' = IF out.exc = "" THEN handles \cup {out.self[1]} ELSE handles
            /\ ret' = [op |-> "open", self |-> out.self,
                       uri |-> <<>>, exc |-> out.exc, msg |-> out.msg,
                       value |-> None, sliding_window |-> sw, dimension |-> dim]
            /\ UNCHANGED <<lastWrite, audio, htk, procs>>

NextSchema == OpenWide

SpecSchema == Init /\ [][NextSchema]_vars

-----------------------------------------------------------------------------
(* The cache while other processes rewrite or remove its schema file *)

\* as Open, without mu and sigma and with memory mapping
OpenPlain ==
    \E sw \in {None} \cup { Some(g) : g \in Grids },
       dim \in {None} \cup { Some(d) : d \in Dimensions } :
        \E out \in { Precomputed_init(files, dirs, RootDir, TRUE, sw, dim,
                                      None, None) } :
            /\ out.exc = "" => Cardinality(handles \cup {out.self[1]}) <= MaxHandles
            /\ files' = out.files
            /\ dirs' = out.dirs
            /\ handles' = IF out.exc = "" THEN handles \cup {out.self[1]} ELSE handles
            /\ ret' = [op |-> "open", self |-> out.self,
                       uri |-> <<>>, exc |-> out.exc, msg |-> out.msg,
                       value |-> None, sliding_window |-> sw, dimension |-> dim]
            /\ UNCHANGED <<lastWrite, audio, htk, procs>>

\* another process replaces the content of metadata.yml
ExternalRewrite ==
    /\ metadata_path(RootDir) \in DOMAIN files
    /\ \E g \in Grids, d \in Dimensions :
          files' = WriteFile(files, metadata_path(RootDir),
                             yaml_dump([start |-> g.start, duration |-> g.duration,
                                        step |-> g.step, dimension |-> d]))
    /\ ret' = [NoCall EXCEPT !.op = "rewritten"]
    /\ UNCHANGED <<dirs, handles, lastWrite, audio, htk, procs>>

\* another process removes metadata.yml
ExternalRemove ==
    /\ metadata_path(RootDir) \in DOMAIN files
    /\ files' = [p \in DOMAIN files \ {metadata_path(RootDir)} |-> files[p]]
    /\ ret' = [NoCall EXCEPT !.op = "removed"]
    /\ UNCHANGED <<dirs, handles, lastWrite, audio, htk, procs>>

NextDrift == OpenPlain \/ Call \/ Dump \/ ExternalRewrite \/ ExternalRemove

SpecDrift == Init /\ [][NextDrift]_vars

-----------------------------------------------------------------------------
(* Two processes constructing Precomputed on the same new directory.       *)
(* __init__ runs in steps: the os.path.exists test (line 211); then either *)
(* the load and the checks of the existing file (lines 213-228), or the    *)
(* parameter checks, mkdir_p and io.open(path, 'w'), which creates or      *)
(* truncates the file (lines 232-245), followed by yaml.dump and the       *)
(* assignments (lines 246-249).  The documents dumped for the values below *)
(* have the same length, so a dump over a document another process dumped  *)
(* since the truncation leaves the later document.                         *)

Openers == {1, 2}

\* a file just created or truncated by io.open(path, 'w')
EmptyYaml == [kind |-> "yaml", doc |-> << >>]

RaceSelf0 == [root_dir |-> RootDir, use_memmap |-> TRUE, mu |-> None, sigma |-> None]

\* the number of dumps of the schema made so far
Dumps(ps) == Cardinality({ q \in DOMAIN ps : ps[q].order > 0 })

InitRace ==
    /\ files = << >>
    /\ dirs = {}
    /\ handles = {}
    /\ ret = NoCall
    /\ lastWrite = [u \in Uris |-> None]
    /\ audio = IdleAudio
    /\ htk = IdleHTK
    /\ \E args \in [Openers -> [sw : {None} \cup { Some(g) : g \in Grids },
                                dim : {None} \cup { Some(d) : d \in Dimensions }]] :
          procs = [p \in Openers |->
                      [pc |-> "exists", sw |-> args[p].sw, dim |-> args[p].dim,
                       self |-> None, exc |-> "", order |-> 0]]

\* line 211: os.path.exists(path)
RaceExists(p) ==
    /\ procs[p].pc = "exists"
    /\ procs' = [procs EXCEPT ![p].pc =
                    IF exists(files, dirs, metadata_path(RootDir))
                    THEN "load" ELSE "create"]
    /\ UNCHANGED <<files, dirs, handles, ret, lastWrite, audio, htk>>

\* lines 213-228: yaml.load of a file another process has just truncated
\* yields None, and params.pop raises AttributeError
RaceLoad(p) ==
    /\ procs[p].pc = "load"
    /\ \E out \in { IF files[metadata_path(RootDir)].doc = << >>
                    THEN Raise(files, dirs, "AttributeError",
                               <<"'NoneType' object has no attribute '", "pop", "'">>)
                    ELSE InitExisting(files, dirs, metadata_path(RootDir), RaceSelf0,
                                      procs[p].sw, procs[p].dim) } :
          /\ procs' = [procs EXCEPT ![p].pc = "done", ![p].self = out.self,
                                    ![p].exc = out.exc]
          /\ handles' = IF out.exc = "" THEN handles \cup {out.self[1]} ELSE handles
    /\ UNCHANGED <<files, dirs, ret, lastWrite, audio, htk>>

\* lines 232-245: parameter checks, mkdir_p, io.open(path, 'w')
RaceCreate(p) ==
    /\ procs[p].pc = "create"
    /\ \E out \in { InitCreate(files, dirs, metadata_path(RootDir), RaceSelf0,
                               procs[p].sw, procs[p].dim) } :
          IF out.exc # ""
          THEN /\ procs' = [procs EXCEPT ![p].pc = "done", ![p].exc = out.exc]
               /\ UNCHANGED <<files, dirs>>
          ELSE /\ procs' = [procs EXCEPT ![p].pc = "opened"]
               /\ dirs' = out.dirs
               /\ files' = WriteFile(files, metadata_path(RootDir), EmptyYaml)
    /\ UNCHANGED <<handles, ret, lastWrite, audio, htk>>

\* lines 246-249: yaml.dump, close, assignments
RaceDump(p) ==
    /\ procs[p].pc = "opened"
    /\ \E out \in { InitCreate(files, dirs, metadata_path(RootDir), RaceSelf0,
                               procs[p].sw, procs[p].dim) } :
          /\ files' = out.files
          /\ dirs' = out.dirs
          /\ procs' = [procs EXCEPT ![p].pc = "done", ![p].self = out.self,
                                    ![p].exc = out.exc,
                                    ![p].order = Dumps(procs) + 1]
          /\ handles' = handles \cup {out.self[1]}
    /\ UNCHANGED <<ret, lastWrite, audio, htk>>

NextRace ==
    \E p \in Openers : RaceExists(p) \/ RaceLoad(p) \/ RaceCreate(p) \/ RaceDump(p)

SpecRace == InitRace /\ [][NextRace]_vars

-----------------------------------------------------------------------------
(* Concurrent dumps and a read on one cache directory.                     *)
(* np.save(path, data) (line 280) runs in steps: it opens the file for     *)
(* writing, which creates or truncates it; it writes the header (the       *)
(* shape) at the start of the file; it writes the elements after the       *)
(* header.  Each process writes at its own file offset, over what the file *)
(* holds there.  A file whose header is missing or whose elements are      *)
(* fewer than its shape needs has shape << >> or a short flat.             *)

Writers == {1, 2}

Reader == 3

\* np.save, first step: open(path, 'wb')
save_open(fsFiles, path) ==
    WriteFile(fsFiles, path, [kind |-> "npy", shape |-> << >>, flat |-> << >>])

\* np.save, second step: the header, at offset 0
save_header(fsFiles, path, data) ==
    WriteFile(fsFiles, path, [fsFiles[path] EXCEPT !.shape = np_save(data).shape])

\* save_data leaving out the last element
save_data_short(fsFiles, path, data) ==
    LET mine == np_save(data).flat
    IN  WriteFile(fsFiles, path,
                  [fsFiles[path] EXCEPT !.flat = SubSeq(mine, 1, Len(mine) - 1)])

\* np.save, third step: the elements, after the header, over the elements
\* the file holds at these offsets
save_data(fsFiles, path, data) ==
    LET mine == np_save(data).flat
        old == fsFiles[path].flat
    IN  WriteFile(fsFiles, path,
                  [fsFiles[path] EXCEPT !.flat =
                      mine \o SubSeq(old, Len(mine) + 1, Len(old))])

\* a file np.load can decode: a header and at least the elements it announces
Complete(content) ==
    /\ content.kind = "npy"
    /\ content.shape # << >>
    /\ Len(content.flat) >= content.shape[1] * content.shape[2]

\* the directory and the object before the concurrent calls: a cache opened
\* with the first grid and dimension 1
RaceBase ==
    Precomputed_init(<< >>, {}, RootDir, TRUE,
                     Some(Grid(R(0), Rat(25, 1000), Rat(1, 100))), Some(1), None, None)

RECURSIVE DumpAll(_, _, _)
\* the file system after the sequential dumps that stored old[u] for each u
DumpAll(fs, old, uris) ==
    IF uris = {} THEN fs
    ELSE LET u == CHOOSE x \in uris : TRUE
             next == IF IsNone(old[u]) THEN fs
                     ELSE Precomputed_dump(fs.files, fs.dirs, RaceBase.self[1], u,
                              SlidingWindowFeature(old[u][1],
                                                   RaceBase.self[1].sliding_window_))
         IN  DumpAll(next, old, uris \ {u})

InitWriteRace ==
    /\ ret = NoCall
    /\ audio = IdleAudio
    /\ htk = IdleHTK
    /\ handles = {RaceBase.self[1]}
    /\ \E old \in [Uris -> {None} \cup { Some(m) : m \in Matrices }] :
          /\ lastWrite = old
          /\ \E fs \in { DumpAll([files |-> RaceBase.files, dirs |-> RaceBase.dirs],
                                 old, Uris) } :
                files = fs.files /\ dirs = fs.dirs
          /\ \E wargs \in [Writers -> [uri : Uris, data : Matrices]], ruri \in Uris :
                procs = [p \in Writers \cup {Reader} |->
                            IF p \in Writers
                            THEN [pc |-> "mkdir", uri |-> wargs[p].uri,
                                  data |-> wargs[p].data, order |-> 0,
                                  overlapped |-> FALSE]
                            ELSE [pc |-> "exists", uri |-> ruri, exc |-> "",
                                  value |-> None, seen |-> None, old |-> old[ruri]]]

\* the writers between their open of the file and their last write to it
Writing(ps) == { w \in Writers : ps[w].pc \in {"header", "data"} }

Finished(ps) == Cardinality({ w \in Writers : ps[w].order > 0 })

\* dump, lines 278-279: get_path and mkdir_p
WriteMkdir(w) ==
    /\ procs[w].pc = "mkdir"
    /\ dirs' = mkdir_p(dirs, dirname(get_path(RootDir, procs[w].uri)))
    /\ procs' = [procs EXCEPT ![w].pc = "open"]
    /\ UNCHANGED <<files, handles, ret, lastWrite, audio, htk>>

\* dump, line 280: np.save opens the file
WriteOpen(w) ==
    /\ procs[w].pc = "open"
    /\ files' = save_open(files, get_path(RootDir, procs[w].uri))
    /\ procs' = [procs EXCEPT ![w].pc = "header",
                              ![w].overlapped = Writing(procs) # {}]
    /\ UNCHANGED <<dirs, handles, ret, lastWrite, audio, htk>>

\* dump, line 280: np.save writes the header
WriteHeader(w) ==
    /\ procs[w].pc = "header"
    /\ files' = save_header(files, get_path(RootDir, procs[w].uri), procs[w].data)
    /\ procs' = [procs EXCEPT ![w].pc = "data"]
    /\ UNCHANGED <<dirs, handles, ret, lastWrite, audio, htk>>

\* dump, line 280: np.save writes the elements and returns
WriteData(w) ==
    /\ procs[w].pc = "data"
    /\ files' = save_data(files, get_path(RootDir, procs[w].uri), procs[w].data)
    /\ procs' = [procs EXCEPT ![w].pc = "done", ![w].order = Finished(procs) + 1]
    /\ lastWrite' = [lastWrite EXCEPT ![procs[w].uri] = Some(procs[w].data)]
    /\ UNCHANGED <<dirs, handles, ret, audio, htk>>

\* __call__, lines 259-264: the os.path.exists test
ReadExists ==
    /\ procs[Reader].pc = "exists"
    /\ IF exists(files, dirs, get_path(RootDir, procs[Reader].uri))
       THEN procs' = [procs EXCEPT ![Reader].pc = "load"]
       ELSE \E out \in { Precomputed_call(files, dirs, RaceBase.self[1],
                                          procs[Reader].uri) } :
               procs' = [procs EXCEPT ![Reader].pc = "done", ![Reader].exc = out.exc]
    /\ UNCHANGED <<files, dirs, handles, ret, lastWrite, audio, htk>>

\* __call__, lines 266-275: np.load of the file as it is now; np.load raises
\* on a file it cannot decode
ReadLoad ==
    /\ procs[Reader].pc = "load"
    /\ \E content \in { files[get_path(RootDir, procs[Reader].uri)] } :
          IF Complete(content)
          THEN \E out \in { Precomputed_call(files, dirs, RaceBase.self[1],
                                             procs[Reader].uri) } :
                  procs' = [procs EXCEPT ![Reader].pc = "done",
                                         ![Reader].exc = out.exc,
                                         ![Reader].value = out.value,
                                         ![Reader].seen = Some(content)]
          ELSE procs' = [procs EXCEPT ![Reader].pc = "done",
                                      ![Reader].exc = "IOError",
                                      ![Reader].seen = Some(content)]
    /\ UNCHANGED <<files, dirs, handles, ret, lastWrite, audio, htk>>

NextWriteRace ==
    \/ \E w \in Writers : WriteMkdir(w) \/ WriteOpen(w) \/ WriteHeader(w) \/ WriteData(w)
    \/ ReadExists
    \/ ReadLoad

SpecWriteRace == InitWriteRace /\ [][NextWriteRace]_vars

-----------------------------------------------------------------------------
(* read_audio *)

MaxSamples == 2

MaxChannels == 3

SampleRates == {8000, 16000}

\* a sample is symbolic: the channels it mixes, its index, its sampling rate
Sample(chs, t, rate) == [chs |-> chs, t |-> t, rate |-> rate]

\* what the decoder yields for a file of c channels and n samples per channel:
\* shape (n,) for one channel, (c, n) otherwise
Decoded(c, n, rate) ==
    IF c = 1
    THEN [shape |-> <<n>>, rows |-> << [t \in 1..n |-> Sample({1}, t, rate)] >>]
    ELSE [shape |-> <<c, n>>,
          rows  |-> [ch \in 1..c |-> [t \in 1..n |-> Sample({ch}, t, rate)]]]

ndim(y) == Len(y.shape)

\* number of samples after resampling n samples: ceil(n * target / orig)
ResampledLen(n, orig, target) == (n * target + orig - 1) \div orig

\* librosa.resample along the last axis
resample(y, orig, target) ==
    IF orig = target THEN y
    ELSE IF ndim(y) = 1
    THEN LET n == ResampledLen(y.shape[1], orig, target)
         IN  [shape |-> <<n>>, rows |-> << [t \in 1..n |-> Sample({1}, t, target)] >>]
    ELSE LET n == ResampledLen(y.shape[2], orig, target)
         IN  [shape |-> <<y.shape[1], n>>,
              rows  |-> [ch \in 1..y.shape[1] |->
                            [t \in 1..n |-> Sample({ch}, t, target)]]]

\* librosa.load(path, sr=sample_rate, mono=False)
librosa_load(content, native, sample_rate) ==
    IF IsNone(sample_rate) THEN <<content, native>>
    ELSE <<resample(content, native, sample_rate[1]), sample_rate[1]>>

\* librosa.to_mono: the mean over the channels of a 2-D array, a 1-D array as is
to_mono(y) ==
    IF ndim(y) > 1
    THEN [shape |-> <<y.shape[2]>>,
          rows  |-> << [t \in 1..y.shape[2] |->
                        Sample(UNION { y.rows[ch][t].chs : ch \in 1..y.shape[1] },
                               t, y.rows[1][t].rate)] >>]
    ELSE y

\* y.T
Transpose(y) ==
    IF ndim(y) = 1 THEN y
    ELSE [shape |-> <<y.shape[2], y.shape[1]>>,
          rows  |-> [t \in 1..y.shape[2] |-> [ch \in 1..y.shape[1] |-> y.rows[ch][t]]]]

\* read_audio, lines 119-132: decoding and resampling
read_audio_decode(in) ==
    IF in.is_sph
    THEN IF ~IsNone(in.sample_rate) /\ in.native # in.sample_rate[1]
         THEN <<resample(in.content, in.native, in.sample_rate[1]), in.sample_rate[1]>>
         ELSE <<in.content, in.native>>
    ELSE librosa_load(in.content, in.native, in.sample_rate)

\* read_audio, lines 134-136
read_audio_reshape(y) ==
    IF ndim(y) = 1 THEN [shape |-> <<1, y.shape[1]>>, rows |-> y.rows] ELSE y

\* y[channel - 1, :] on a 2-D array: a negative index counts from the end
IndexChannel(y, index) ==
    LET c == y.shape[1]
        k == IF index < 0 THEN index + c ELSE index
    IN  IF index < -c \/ index >= c
        THEN [exc |-> "IndexError", y |-> y]
        ELSE [exc |-> "", y |-> [shape |-> <<y.shape[2]>>, rows |-> <<y.rows[k + 1]>>]]

\* read_audio(current_file, sample_rate, mono)
read_audio(in) ==
    LET dec == read_audio_decode(in)
        y1 == read_audio_reshape(dec[1])
        sel == IF IsNone(in.channel) THEN [exc |-> "", y |-> y1]
               ELSE IndexChannel(y1, in.channel[1] - 1)
    IN  IF sel.exc # ""
        THEN [exc |-> sel.exc, y |-> None, sample_rate |-> None]
        ELSE LET y3 == IF in.mono THEN to_mono(sel.y) ELSE sel.y
             IN  [exc |-> "", y |-> Some(Transpose(y3)), sample_rate |-> Some(dec[2])]

\* the calls of read_audio made by callers
AudioInputs ==
    { [is_sph |-> is_sph, content |-> Decoded(c, n, native), native |-> native,
       sample_rate |-> sample_rate, channel |-> channel, mono |-> mono] :
        is_sph \in BOOLEAN, c \in 1..MaxChannels, n \in 1..MaxSamples,
        native \in SampleRates,
        sample_rate \in {None} \cup { Some(r) : r \in SampleRates },
        channel \in {None} \cup { Some(ch) : ch \in -1..(MaxChannels + 1) },
        mono \in BOOLEAN }

InitAudio ==
    /\ files = << >>
    /\ dirs = {}
    /\ handles = {}
    /\ ret = NoCall
    /\ lastWrite = [u \in Uris |-> None]
    /\ htk = IdleHTK
    /\ procs = NoProcs
    /\ \E in \in AudioInputs : audio = [phase |-> "called", in |-> in]

ReadAudio ==
    /\ audio.phase = "called"
    /\ audio' = [phase |-> "done", in |-> audio.in, out |-> read_audio(audio.in)]
    /\ UNCHANGED <<files, dirs, handles, ret, lastWrite, htk, procs>>

NextAudio == ReadAudio

SpecAudio == InitAudio /\ [][NextAudio]_vars

-----------------------------------------------------------------------------
(* class PrecomputedHTK: the legacy binary cache *)

RECURSIVE Pow2(_)
Pow2(k) == IF k = 0 THEN 1 ELSE 2 * Pow2(k - 1)

\* struct.unpack('>i', b): big-endian two's complement 32-bit integer
unpack_i(b) ==
    (IF b[1] >= 128 THEN b[1] - 256 ELSE b[1]) * 16777216
        + b[2] * 65536 + b[3] * 256 + b[4]

\* struct.unpack('>h', b): big-endian two's complement 16-bit integer
unpack_h(b) == (IF b[1] >= 128 THEN b[1] - 256 ELSE b[1]) * 256 + b[2]

\* struct.unpack('>f', b): big-endian IEEE 754 single, as an exact rational.
\* Infinities and NaN are n/0; the exponents of the files modelled keep the
\* numerator and the denominator within 32-bit integers.
unpack_f(b) ==
    LET sign == IF b[1] >= 128 THEN -1 ELSE 1
        e == (b[1] % 128) * 2 + (b[2] \div 128)
        m == (b[2] % 128) * 65536 + b[3] * 256 + b[4]
    IN  IF e = 0 /\ m = 0 THEN R(0)
        ELSE IF e = 255 THEN <<IF m = 0 THEN sign ELSE 0, 0>>
        ELSE IF e >= 150 THEN Rat(sign * (8388608 + m) * Pow2(e - 150), 1)
        ELSE Rat(sign * (8388608 + m), Pow2(150 - e))

\* int(x / 4) under true division: truncation toward zero
TruncDiv4(x) == IF x >= 0 THEN x \div 4 ELSE -((-x) \div 4)

Bytes(b, from, to) == SubSeq(b, from, IF to > Len(b) THEN Len(b) ELSE to)

\* PrecomputedHTK.load_htk: the matrix and sample period of a file, or the
\* exception raised
load_htk(disk, file_htk) ==
    LET Fail(exc) == [exc |-> exc, X |-> None, sample_period |-> 0]
    IN  IF file_htk \notin DOMAIN disk THEN Fail("IOError")
        ELSE LET b == disk[file_htk]
                 num_samples == unpack_i(SubSeq(b, 1, 4))
                 sample_period == unpack_i(SubSeq(b, 5, 8))
                 sample_size == unpack_h(SubSeq(b, 9, 10))
                 num_features == TruncDiv4(sample_size)
                 \* number of floats in the format string: 'f' * (sample_size // 4)
                 nf == IF sample_size \div 4 < 0 THEN 0 ELSE sample_size \div 4
                 \* fp.read(sample_size) of record i (0-based); a negative size
                 \* reads to the end of the file
                 data(k) == IF sample_size >= 0
                            THEN Bytes(b, 12 + k * sample_size + 1,
                                       12 + (k + 1) * sample_size)
                            ELSE IF k = 0 THEN Bytes(b, 13, Len(b)) ELSE <<>>
             IN  IF Len(b) < 12 THEN Fail("struct.error")
                 ELSE IF num_samples < 0 \/ num_features < 0 THEN Fail("ValueError")
                 ELSE IF \E k \in 0..(num_samples - 1) : Len(data(k)) # 4 * nf
                 THEN Fail("struct.error")
                 ELSE [exc |-> "",
                       X |-> Some([shape |-> <<num_samples, num_features>>,
                                   rows |-> [k \in 1..num_samples |->
                                       [j \in 1..num_features |->
                                           unpack_f(SubSeq(data(k - 1),
                                                           4 * j - 3, 4 * j))]]]),
                       sample_period |-> sample_period]

\* PrecomputedHTK.get_path: '{root_dir}/{uri}.htk'
htk_get_path(root_dir, uri) == root_dir \o <<"/">> \o uri \o <<".htk">>

\* a token that a '*' of the glob pattern matches
IsName(tok) == tok \notin {"/", ".htk", ".npy", ".yml"}

\* glob('{root_dir}/*/*.htk'): the files exactly two levels below root_dir
glob_htk(disk, root_dir) ==
    { p \in DOMAIN disk :
        /\ Len(p) = Len(root_dir) + 5
        /\ SubSeq(p, 1, Len(root_dir)) = root_dir
        /\ p[Len(root_dir) + 1] = "/" /\ IsName(p[Len(root_dir) + 2])
        /\ p[Len(root_dir) + 3] = "/" /\ IsName(p[Len(root_dir) + 4])
        /\ p[Len(root_dir) + 5] = ".htk" }

\* __init__ trusting the header of the file even when the caller gives a step
PrecomputedHTK_init_headerStep(disk, root_dir, duration, step, mu, sigma, file_htk) ==
    IF IsNone(file_htk)
    THEN [exc |-> "ValueError",
          msg |-> <<"Could not find any HTK file in '">> \o root_dir \o <<"'.">>,
          self |-> None]
    ELSE LET loaded == load_htk(disk, file_htk[1])
         IN  IF loaded.exc # ""
             THEN [exc |-> loaded.exc, msg |-> <<>>, self |-> None]
             ELSE LET step_ == Rat(loaded.sample_period, 10000000)
                  IN  [exc |-> "", msg |-> <<>>,
                       self |-> Some([root_dir |-> root_dir, duration |-> duration,
                                      mu |-> mu, sigma |-> sigma,
                                      dimension_ |-> loaded.X[1].shape[2],
                                      step |-> step_,
                                      sliding_window_ |-> Grid(R(0), duration, step_)])]

\* PrecomputedHTK.__init__ when glob lists file_htk first (None: nothing found)
PrecomputedHTK_init(disk, root_dir, duration, step, mu, sigma, file_htk) ==
    IF IsNone(file_htk)
    THEN [exc |-> "ValueError",
          msg |-> <<"Could not find any HTK file in '">> \o root_dir \o <<"'.">>,
          self |-> None]
    ELSE LET loaded == load_htk(disk, file_htk[1])
         IN  IF loaded.exc # ""
             THEN [exc |-> loaded.exc, msg |-> <<>>, self |-> None]
             ELSE LET step_ == IF ~IsNone(step) THEN step[1]
                               ELSE Rat(loaded.sample_period, 10000000)
                  IN  [exc |-> "", msg |-> <<>>,
                       self |-> Some([root_dir |-> root_dir, duration |-> duration,
                                      mu |-> mu, sigma |-> sigma,
                                      dimension_ |-> loaded.X[1].shape[2],
                                      step |-> step_,
                                      sliding_window_ |-> Grid(R(0), duration, step_)])]

\* __call__ returning the decoded matrix without normalizing it
PrecomputedHTK_call_raw(disk, self, uri) ==
    LET loaded == load_htk(disk, htk_get_path(self.root_dir, uri))
    IN  IF loaded.exc # "" THEN [exc |-> loaded.exc, value |-> None]
        ELSE [exc |-> "",
              value |-> Some(SlidingWindowFeature(loaded.X[1], self.sliding_window_))]

\* PrecomputedHTK.__call__
PrecomputedHTK_call(disk, self, uri) ==
    LET loaded == load_htk(disk, htk_get_path(self.root_dir, uri))
    IN  IF loaded.exc # "" THEN [exc |-> loaded.exc, value |-> None]
        ELSE [exc |-> "",
              value |-> Some(SlidingWindowFeature(
                                Normalize(loaded.X[1], self.mu, self.sigma),
                                self.sliding_window_))]

(* Files of the legacy format found on disk *)

BE32(n) == <<n \div 16777216, (n \div 65536) % 256, (n \div 256) % 256, n % 256>>

BE16(n) == <<n \div 256, n % 256>>

Header(num_samples, sample_period, sample_size, kind) ==
    BE32(num_samples) \o BE32(sample_period) \o BE16(sample_size) \o BE16(kind)

\* 2 frames (1.0, 2.0) and (3.0, 4.0), sample period 0.01 s
ExampleFile ==
    Header(2, 100000, 8, 0) \o <<63, 128, 0, 0>> \o <<64, 0, 0, 0>>
                            \o <<64, 64, 0, 0>> \o <<64, 128, 0, 0>>

\* 3 frames (0.5), (-2.0), (1.5), sample period 0.02 s
OtherFile ==
    Header(3, 200000, 4, 9) \o <<63, 0, 0, 0>> \o <<192, 0, 0, 0>> \o <<63, 192, 0, 0>>

\* announces 2 frames of 8 bytes and holds one and a half
TruncatedFile ==
    Header(2, 100000, 8, 0) \o <<63, 128, 0, 0>> \o <<64, 0, 0, 0>> \o <<64, 64, 0, 0>>

HTKFiles == { ExampleFile, OtherFile, TruncatedFile }

HTKUris == { <<"db", "/", "a">>, <<"db", "/", "b">>, <<"c">> }

\* the contents a root directory can have: each path absent or one of HTKFiles
HTKDisks ==
    UNION { [ { htk_get_path(RootDir, u) : u \in present } -> HTKFiles ] :
                present \in SUBSET HTKUris }

DefaultDuration == Rat(25, 1000)

HTKDurations == { DefaultDuration, Rat(50, 1000) }

HTKSteps == { None, Some(Rat(5, 1000)) }

DefaultMu == R(0)

DefaultSigma == R(1)

HTKMus == { DefaultMu, R(2) }

HTKSigmas == { DefaultSigma, R(4) }

NoHTKCall == [op |-> "none", uri |-> <<>>, exc |-> "", value |-> None,
              first |-> None, step |-> None]

InitHTK ==
    /\ files = << >>
    /\ dirs = {}
    /\ handles = {}
    /\ ret = NoCall
    /\ lastWrite = [u \in Uris |-> None]
    /\ audio = IdleAudio
    /\ procs = NoProcs
    /\ \E disk \in HTKDisks :
          htk = [phase |-> "disk", disk |-> disk, self |-> None, ret |-> NoHTKCall]

\* a caller constructs PrecomputedHTK(root_dir, duration, step, mu, sigma);
\* glob may list any of the files it finds first
HTKOpen ==
    /\ htk.phase = "disk"
    /\ \E duration \in HTKDurations, step \in HTKSteps, mu \in HTKMus,
          sigma \in HTKSigmas :
        \E first \in IF glob_htk(htk.disk, RootDir) = {} THEN {None}
                     ELSE { Some(f) : f \in glob_htk(htk.disk, RootDir) } :
          \E out \in { PrecomputedHTK_init(htk.disk, RootDir, duration, step, mu,
                                           sigma, first) } :
            htk' = [phase |-> IF out.exc = "" THEN "open" ELSE "disk",
                    disk |-> htk.disk, self |-> out.self,
                    ret |-> [op |-> "init", uri |-> <<>>, exc |-> out.exc,
                             value |-> None, first |-> first, step |-> step]]
    /\ UNCHANGED <<files, dirs, handles, ret, lastWrite, audio, procs>>

\* a caller reads an entry: precomputed(item)
HTKCall ==
    /\ htk.phase = "open"
    /\ \E uri \in HTKUris :
        \E out \in { PrecomputedHTK_call(htk.disk, htk.self[1], uri) } :
            htk' = [htk EXCEPT !.ret = [op |-> "read", uri |-> uri, exc |-> out.exc,
                                        value |-> out.value, first |-> None,
                                        step |-> None]]
    /\ UNCHANGED <<files, dirs, handles, ret, lastWrite, audio, procs>>

NextHTK == HTKOpen \/ HTKCall

SpecHTK == InitHTK /\ [][NextHTK]_vars

-----
(* Properties of the matrix-native cache *)

SchemaPath == metadata_path(RootDir)

SchemaExists == SchemaPath \in DOMAIN files

\* the (grid, dimension) the schema file holds
StoredSchema ==
    LET params == yaml_load(files[SchemaPath])
    IN  [sliding_window |-> Grid(params["start"], params["duration"], params["step"]),
         dimension |-> params["dimension"]]

\* the (grid, dimension) an object answers with
Resolved(self) ==
    [sliding_window |-> sliding_window(self), dimension |-> dimension(self)]

EntryPath(uri) == get_path(RootDir, uri)

LastRead == ret.op = "read"

LastOpen == ret.op = "open"

\* C1: through an object opened without mu and sigma, read(key) returns the
\* matrix of the most recent write to key, element for element, on the grid
\* the object resolved at open (the grid of the schema); a later write to a
\* key replaces the earlier one, so every entry holds the last matrix written.
C1_RoundTrip ==
    /\ \A uri \in Uris :
          ~IsNone(lastWrite[uri]) =>
              /\ EntryPath(uri) \in DOMAIN files
              /\ np_load(files[EntryPath(uri)]) = lastWrite[uri][1]
    /\ (LastRead /\ IsNone(ret.self[1].mu) /\ IsNone(ret.self[1].sigma)
            /\ ~IsNone(lastWrite[ret.uri])) =>
          /\ ret.exc = ""
          /\ ret.value[1].data = lastWrite[ret.uri][1]
          /\ ret.value[1].sliding_window = sliding_window(ret.self[1])
          /\ ret.value[1].sliding_window = StoredSchema.sliding_window

C1_Witness ==
    /\ LastRead /\ ret.exc = ""
    /\ IsNone(ret.self[1].mu) /\ IsNone(ret.self[1].sigma)
    /\ ret.uri = <<"db", "/", "a">>
    /\ ret.value[1].data = Array2(<< <<R(1)>>, <<R(3)>>, <<R(5)>> >>, 1)

\* C2: opening a directory whose schema file exists, with a dimension that is
\* given and differs from the stored one, fails with a ValueError (the error
\* of every other schema mismatch) whose message names both dimensions.
C2_DimensionMismatchError ==
    (LastOpen /\ SchemaExists /\ ~IsNone(ret.dimension)
        /\ ret.dimension[1] # StoredSchema.dimension) =>
       /\ ret.exc = "ValueError"
       /\ ToString(ret.dimension[1]) \in Range(ret.msg)
       /\ ToString(StoredSchema.dimension) \in Range(ret.msg)

MissingMessages == { <<"missing \"sliding_window\" parameter.">>,
                     <<"missing \"dimension\" parameter.">> }

\* C4: an open of a directory without schema file fails with a ValueError
\* "missing ..." when the dimension or the grid is not given; when both are
\* given it succeeds, writes the schema file with exactly these start,
\* duration, step and dimension, and the object resolves to them.
C4_FirstOpen ==
    [][ (ret'.op = "open" /\ ~exists(files, dirs, SchemaPath)) =>
          IF IsNone(ret'.dimension) \/ IsNone(ret'.sliding_window)
          THEN /\ ret'.exc = "ValueError"
               /\ ret'.msg \in MissingMessages
               /\ IsNone(ret'.self)
          ELSE /\ ret'.exc = ""
               /\ SchemaPath \in DOMAIN files'
               /\ Range(files'[SchemaPath].doc) =
                     { <<"start", ret'.sliding_window[1].start>>,
                       <<"duration", ret'.sliding_window[1].duration>>,
                       <<"step", ret'.sliding_window[1].step>>,
                       <<"dimension", ret'.dimension[1]>> }
               /\ Resolved(ret'.self[1]) =
                     [sliding_window |-> ret'.sliding_window[1],
                      dimension |-> ret'.dimension[1]] ]_vars

C4_Witness ==
    /\ LastOpen /\ ret.exc = ""
    /\ ~IsNone(ret.dimension) /\ ~IsNone(ret.sliding_window)
    /\ DOMAIN files = {SchemaPath}
    /\ handles = {ret.self[1]}

\* C5: read(key) of a key without entry file fails with
\* PyannoteFeatureExtractionError, its message holds the key, and neither a
\* file nor a directory is created.
C5_NotFound ==
    [][ (ret'.op = "read"
            /\ ~exists(files, dirs, get_path(ret'.self[1].root_dir, ret'.uri))) =>
          /\ ret'.exc = "PyannoteFeatureExtractionError"
          /\ ret'.msg = <<"No precomputed features for \"">> \o ret'.uri \o <<"\".">>
          /\ files' = files
          /\ dirs' = dirs ]_vars

C5_Witness ==
    /\ LastRead /\ ret.exc = "PyannoteFeatureExtractionError"
    /\ ret.uri = <<"db", "/", "a">>
    /\ <<"d", "/", "db">> \notin dirs

\* C6: read(key) returns (stored - mu) / sigma when mu and sigma are both
\* set, and the stored matrix unchanged when they are not both set.
C6_Normalization ==
    (LastRead /\ EntryPath(ret.uri) \in DOMAIN files) =>
       /\ ret.exc = ""
       /\ ret.value[1].data =
             IF ~IsNone(ret.self[1].mu) /\ ~IsNone(ret.self[1].sigma)
             THEN Normalize(np_load(files[EntryPath(ret.uri)]),
                            ret.self[1].mu[1], ret.self[1].sigma[1])
             ELSE np_load(files[EntryPath(ret.uri)])

\* C7: every entry stored in the directory and every record returned by read
\* has as many columns as the dimension of the schema.
C7_ColumnsMatchSchema ==
    /\ \A uri \in Uris :
          EntryPath(uri) \in DOMAIN files =>
              files[EntryPath(uri)].shape[2] = StoredSchema.dimension
    /\ (LastRead /\ ret.exc = "") =>
          ret.value[1].data.shape[2] = StoredSchema.dimension

\* C8: once the schema file exists, no open, read or write changes its content.
C8_SchemaWrittenOnce ==
    [][ (SchemaPath \in DOMAIN files) =>
          (SchemaPath \in DOMAIN files' /\ files'[SchemaPath] = files[SchemaPath]) ]_vars

C8_Witness ==
    /\ ret.op = "write" /\ ret.uri = <<"metadata", ".yml">>
    /\ SchemaExists
    /\ Cardinality(handles) = 2

-----------------------------------------------------------------------------
(* Properties of read_audio *)

AudioDone == audio.phase = "done"

\* channels and samples per channel of the decoded (and resampled) input
InputChannels(in) ==
    IF ndim(in.content) = 1 THEN 1 ELSE in.content.shape[1]

OutputSamples(in) ==
    LET dec == read_audio_decode(in)[1]
    IN  dec.shape[Len(dec.shape)]

\* C9: read_audio returns a 2-D matrix of shape (n_samples, n_kept_channels):
\* (n_samples, 1) holding only the samples of the selected channel when a
\* channel is selected, (n_samples, 1) when mono mixing is on.
C9_TwoDimensional ==
    (AudioDone /\ audio.out.exc = "") =>
        LET in == audio.in
            y == audio.out.y[1]
            kept == IF ~IsNone(in.channel) \/ in.mono THEN 1 ELSE InputChannels(in)
        IN  /\ ndim(y) = 2
            /\ y.shape = <<OutputSamples(in), kept>>
            /\ (~IsNone(in.channel) /\ InputChannels(in) = 2 /\ ~in.mono
                    /\ in.channel[1] \in 1..2) =>
                  \A t \in DOMAIN y.rows : y.rows[t][1].chs = {in.channel[1]}

-----------------------------------------------------------------------------
(* Properties of the legacy binary cache *)

HTKRead == htk.phase = "open" /\ htk.ret.op = "read"

\* a header followed by at least num_samples records of sample_size bytes,
\* sample_size a multiple of 4
WellFormed(b) ==
    /\ Len(b) >= 12
    /\ unpack_i(SubSeq(b, 1, 4)) >= 0
    /\ unpack_h(SubSeq(b, 9, 10)) >= 0
    /\ unpack_h(SubSeq(b, 9, 10)) % 4 = 0
    /\ Len(b) >= 12 + unpack_i(SubSeq(b, 1, 4)) * unpack_h(SubSeq(b, 9, 10))

\* the j-th float of the i-th record of a file (both counted from 1)
FloatAt(b, i, j) ==
    LET offset == 12 + (i - 1) * unpack_h(SubSeq(b, 9, 10)) + 4 * (j - 1)
    IN  unpack_f(SubSeq(b, offset + 1, offset + 4))

\* C10: read(key) of a well-formed file returns num_samples rows of
\* sample_size_bytes / 4 columns, row i being the i-th record of the file
\* normalized by (X - mu) / sigma, on the grid resolved at initialization
\* (start 0, the duration and the step of the object); the file of the
\* example decodes to [[1, 2], [3, 4]] under the defaults mu = 0, sigma = 1.
C10_LegacyDecode ==
    (HTKRead /\ htk_get_path(RootDir, htk.ret.uri) \in DOMAIN htk.disk
        /\ WellFormed(htk.disk[htk_get_path(RootDir, htk.ret.uri)])) =>
       LET b == htk.disk[htk_get_path(RootDir, htk.ret.uri)]
           self == htk.self[1]
           n == unpack_i(SubSeq(b, 1, 4))
           dim == unpack_h(SubSeq(b, 9, 10)) \div 4
       IN  /\ htk.ret.exc = ""
           /\ htk.ret.value[1].data.shape = <<n, dim>>
           /\ Len(htk.ret.value[1].data.rows) = n
           /\ \A i \in 1..n :
                 /\ Len(htk.ret.value[1].data.rows[i]) = dim
                 /\ \A j \in 1..dim :
                       htk.ret.value[1].data.rows[i][j] =
                           RatDiv(RatSub(FloatAt(b, i, j), self.mu), self.sigma)
           /\ htk.ret.value[1].sliding_window = Grid(R(0), self.duration, self.step)
           /\ (b = ExampleFile /\ self.mu = DefaultMu /\ self.sigma = DefaultSigma) =>
                 htk.ret.value[1].data.rows = << <<R(1), R(2)>>, <<R(3), R(4)>> >>

C10_Witness ==
    /\ HTKRead /\ htk.ret.exc = ""
    /\ htk.disk[htk_get_path(RootDir, htk.ret.uri)] = ExampleFile
    /\ htk.self[1].mu = R(2) /\ htk.self[1].sigma = R(4)
    /\ htk.ret.value[1].data.rows =
          << <<Rat(-1, 4), R(0)>>, <<Rat(1, 4), Rat(1, 2)>> >>
    /\ htk.ret.value[1].sliding_window = Grid(R(0), Rat(25, 1000), Rat(1, 100))

-----------------------------------------------------------------------------
(* Further properties of read_audio, the legacy cache and failed opens *)

\* C17: read_audio with a channel selector outside 1..n_channels (0 and
\* negative values included) fails with an IndexError; it never returns the
\* samples of some other channel.
C17_ChannelOutOfRange ==
    (AudioDone /\ ~IsNone(audio.in.channel)
        /\ audio.in.channel[1] \notin 1..InputChannels(audio.in)) =>
       audio.out.exc = "IndexError"

\* C18: every record returned by read(key) of the legacy cache has as many
\* columns as the object's dimension() and is wrapped with the object's grid,
\* for every key whose file exists under root_dir.
C18_LegacyColumns ==
    (HTKRead /\ htk.ret.exc = "") =>
       /\ htk.ret.value[1].data.shape[2] = htk.self[1].dimension_
       /\ htk.ret.value[1].sliding_window = htk.self[1].sliding_window_

\* C19: an open that fails changes neither the files nor the directories (and
\* leaves the objects already held as they are), so the open that follows it
\* finds the file system it would have found without it.
C19_FailedOpenNoEffect ==
    [][ (ret'.op = "open" /\ ret'.exc # "") =>
          /\ files' = files
          /\ dirs' = dirs
          /\ handles' = handles
          /\ IsNone(ret'.self) ]_vars

C19_Witness ==
    /\ LastOpen /\ ret.exc = "ValueError" /\ ret.msg \in MissingMessages
    /\ files = << >>
    /\ dirs = {}

HTKInit == htk.ret.op = "init"

\* what initialization resolves from the header of the file b, the duration
\* the object was given and the step the caller passed
ResolvedFromHeader(b, duration, step) ==
    [dimension |-> unpack_h(SubSeq(b, 9, 10)) \div 4,
     sliding_window |->
        Grid(R(0), duration,
             IF ~IsNone(step) THEN step[1]
             ELSE Rat(unpack_i(SubSeq(b, 5, 8)), 10000000))]

\* C16 as stated: initialization fails with a ValueError when the scan of
\* root_dir finds no file; otherwise it resolves dimension = sample_size / 4
\* of the first file found and the grid (0, duration, step), the step being
\* the caller's when one is given and sample_period * 1e-7 otherwise.
C16_LegacyInit ==
    HTKInit =>
       IF glob_htk(htk.disk, RootDir) = {}
       THEN htk.ret.exc = "ValueError" /\ IsNone(htk.self)
       ELSE /\ htk.ret.exc = ""
            /\ Resolved(htk.self[1]) =
                  ResolvedFromHeader(htk.disk[htk.ret.first[1]],
                                     htk.self[1].duration, htk.ret.step)

\* C16 amended: the second case holds when the first file found is well
\* formed; when it is not, initialization fails with the error of the decoder.
C16_LegacyInitWellFormed ==
    HTKInit =>
       IF glob_htk(htk.disk, RootDir) = {}
       THEN htk.ret.exc = "ValueError" /\ IsNone(htk.self)
       ELSE IF WellFormed(htk.disk[htk.ret.first[1]])
       THEN /\ htk.ret.exc = ""
            /\ htk.ret.first[1] \in glob_htk(htk.disk, RootDir)
            /\ htk.self[1].duration \in HTKDurations
            /\ Resolved(htk.self[1]) =
                  ResolvedFromHeader(htk.disk[htk.ret.first[1]],
                                     htk.self[1].duration, htk.ret.step)
       ELSE htk.ret.exc = "struct.error" /\ IsNone(htk.self)

C16_Witness ==
    /\ HTKInit /\ htk.ret.exc = ""
    /\ htk.disk[htk.ret.first[1]] = OtherFile
    /\ htk.ret.step = Some(Rat(5, 1000))
    /\ htk.self[1].dimension_ = 1
    /\ htk.self[1].sliding_window_ = Grid(R(0), DefaultDuration, Rat(5, 1000))

-----------------------------------------------------------------------------
(* Properties of the schema checks at open *)

\* C11: an open of a directory whose schema file exists, with a grid that is
\* given and a dimension that passes its check, fails with the ValueError
\* 'inconsistent "sliding_window"' if and only if the start, the duration or
\* the step given differs from the stored one; it succeeds when all three
\* are equal.
C11_GridMismatch ==
    [][ (ret'.op = "open" /\ SchemaPath \in DOMAIN files
            /\ ~IsNone(ret'.sliding_window)
            /\ (IsNone(ret'.dimension)
                   \/ ret'.dimension[1] = StoredSchema.dimension)) =>
          IF \/ ret'.sliding_window[1].start # StoredSchema.sliding_window.start
             \/ ret'.sliding_window[1].duration # StoredSchema.sliding_window.duration
             \/ ret'.sliding_window[1].step # StoredSchema.sliding_window.step
          THEN /\ ret'.exc = "ValueError"
               /\ ret'.msg = <<"inconsistent \"sliding_window\"">>
               /\ IsNone(ret'.self)
          ELSE /\ ret'.exc = ""
               /\ sliding_window(ret'.self[1]) = ret'.sliding_window[1] ]_vars

\* an open refused for its duration alone
C11_Witness ==
    /\ LastOpen /\ ret.exc = "ValueError"
    /\ ret.msg = <<"inconsistent \"sliding_window\"">>
    /\ SchemaExists
    /\ ret.sliding_window[1].start = StoredSchema.sliding_window.start
    /\ ret.sliding_window[1].step = StoredSchema.sliding_window.step
    /\ ret.sliding_window[1].duration # StoredSchema.sliding_window.duration

\* C12: the (grid, dimension) of an object are those it resolved at open,
\* whatever happens to metadata.yml afterwards: no step changes an object,
\* every read wraps its matrix with the grid of the object it goes through,
\* and no read or write fails for the state of the schema file (a read fails
\* only for a missing entry, a write never).
C12_ResolvedFixedAtOpen ==
    [][ /\ handles \subseteq handles'
        /\ (ret'.op = "read" /\ ret'.exc = "") =>
              ret'.value[1].sliding_window = sliding_window(ret'.self[1])
        /\ ret'.op = "read" =>
              /\ ret'.self[1] \in handles
              /\ ret'.exc = IF get_path(RootDir, ret'.uri) \in DOMAIN files
                            THEN "" ELSE "PyannoteFeatureExtractionError"
        /\ ret'.op = "write" => ret'.exc = "" ]_vars

\* a read through an object whose grid is no longer the grid of metadata.yml
C12_Witness ==
    /\ LastRead /\ ret.exc = ""
    /\ SchemaExists
    /\ StoredSchema.sliding_window # sliding_window(ret.self[1])
    /\ StoredSchema.dimension # dimension(ret.self[1])
    /\ ret.value[1].sliding_window = sliding_window(ret.self[1])

-----------------------------------------------------------------------------
(* Properties of concurrent callers *)

RaceDone == \A p \in Openers : procs[p].pc = "done"

\* C13: when two processes open the same new directory and both find no
\* schema file, both opens succeed without error, the schema file ends up
\* holding the values of the process that dumped last, and the other
\* process's object holds its own values: a schema that differs from the
\* persisted one whenever the two were given different values.  (The witness
\* is an interleaving in which this happens with different values.)
C13_CreationRace ==
    \A p, q \in Openers :
        (RaceDone /\ procs[p].order > 0 /\ procs[q].order > procs[p].order) =>
            /\ procs[p].exc = "" /\ procs[q].exc = ""
            /\ StoredSchema = [sliding_window |-> procs[q].sw[1],
                               dimension |-> procs[q].dim[1]]
            /\ Resolved(procs[q].self[1]) = StoredSchema
            /\ Resolved(procs[p].self[1]) = [sliding_window |-> procs[p].sw[1],
                                             dimension |-> procs[p].dim[1]]
            /\ (procs[p].sw # procs[q].sw \/ procs[p].dim # procs[q].dim) =>
                   Resolved(procs[p].self[1]) # StoredSchema

C13_Witness ==
    /\ RaceDone
    /\ procs[1].order = 1 /\ procs[2].order = 2
    /\ procs[1].exc = "" /\ procs[2].exc = ""
    /\ procs[1].sw # procs[2].sw /\ procs[1].dim # procs[2].dim
    /\ Resolved(procs[2].self[1]) = StoredSchema
    /\ Resolved(procs[1].self[1]) # StoredSchema

-----------------------------------------------------------------------------
(* Concurrent dumps to one key *)

WritersDone == \A w \in Writers : procs[w].pc = "done"

SameKey == \A v, w \in Writers : procs[v].uri = procs[w].uri

LastWriter == CHOOSE w \in Writers : procs[w].order = Cardinality(Writers)

Entry(uri) == files[get_path(RootDir, uri)]

Holds(uri, data) == Complete(Entry(uri)) /\ np_load(Entry(uri)) = data

\* no writer opened the file while another was between its open and its
\* last write
OneAfterTheOther == \A w \in Writers : ~procs[w].overlapped

\* C14, as stated: when two writers to the same key have each run to
\* completion, the entry holds the matrix of the writer that finished last.
C14_LastWriterWins ==
    (WritersDone /\ SameKey) => Holds(procs[LastWriter].uri, procs[LastWriter].data)

\* C14, amended: when two writers to the same key ran one after the other and
\* have each completed, the entry holds the matrix of the writer that finished
\* last; and a read that found the file partially written (no header yet, or
\* fewer elements than the header announces) fails and returns no matrix.
C14_SequentialLastWriterWins ==
    /\ (WritersDone /\ SameKey /\ OneAfterTheOther)
          => Holds(procs[LastWriter].uri, procs[LastWriter].data)
    /\ (procs[Reader].pc = "done" /\ ~IsNone(procs[Reader].seen)
                                 /\ ~Complete(procs[Reader].seen[1]))
          => (procs[Reader].exc # "" /\ IsNone(procs[Reader].value))

\* two writers overwrote a stored key one after the other, the entry holds the
\* second one's matrix, and a read of that key in between observed a partially
\* written file
C14_Witness ==
    /\ WritersDone /\ SameKey /\ OneAfterTheOther
    /\ procs[1].data # procs[2].data
    /\ Holds(procs[LastWriter].uri, procs[LastWriter].data)
    /\ procs[Reader].uri = procs[1].uri
    /\ ~IsNone(procs[Reader].old)
    /\ procs[Reader].pc = "done"
    /\ ~IsNone(procs[Reader].seen)
    /\ ~Complete(procs[Reader].seen[1])

-----------------------------------------------------------------------------
(* Concurrent dumps to different keys *)

\* the files this step created or changed
Touched == { path \in DOMAIN files' : path \notin DOMAIN files \/ files'[path] # files[path] }

\* the writers that took this step
Stepping == { w \in Writers : procs'[w] # procs[w] }

EachKeyHoldsItsMatrix ==
    (WritersDone /\ ~SameKey) => \A w \in Writers : Holds(procs[w].uri, procs[w].data)

\* C15: a step of a write to key k1 creates or changes only the entry file of
\* k1 (the entry of every other key and the schema file keep their content,
\* and no file disappears), and once concurrent writers to distinct keys have
\* completed, in whatever interleaving, each key holds exactly the matrix
\* written to it.
C15_IndependentKeys ==
    [][ /\ DOMAIN files \subseteq DOMAIN files'
        /\ \A path \in Touched :
              \E w \in Stepping : path = get_path(RootDir, procs[w].uri)
        /\ files'[SchemaPath] = files[SchemaPath]
        /\ EachKeyHoldsItsMatrix' ]_vars

\* two writers whose writes overlapped in time stored different matrices under
\* different keys, and each key holds its own
C15_Witness ==
    /\ WritersDone /\ ~SameKey
    /\ \E w \in Writers : procs[w].overlapped
    /\ procs[1].data # procs[2].data
    /\ \A w \in Writers : Holds(procs[w].uri, procs[w].data)

====
